---- MODULE Spec2Model ----
(***************************************************************************)
(* Model of the approval workflow of assistant-ui-anywidget:               *)
(* LangGraphAIService.chat driving the agent graph of                      *)
(* ai/langgraph_service.py (agent -> approval -> tools -> agent) over a    *)
(* per-thread checkpoint store, with several callers running chat          *)
(* concurrently against one service and one kernel.                        *)
(***************************************************************************)
EXTENDS Integers, Sequences, FiniteSets, TLC

(* ------------------------------ bounds --------------------------------- *)
\* model replies that carry tool calls, in one behaviour
MaxToolReplies == 2

\* chat calls in one behaviour; a call that begins while another call is
\* running counts twice
MaxCalls == 3

\* the steps one invoke of the graph may take (langgraph's recursion_limit;
\* chat passes none in its config, so the library's default of 25 applies)
RecursionLimit == 4

\* direct calls of kernel.execute_code in one behaviour
MaxDirect == 4

\* requests handed to MessageHandlers.handle_message in one behaviour
MaxRequests == 2

\* operations handled by one widget in one behaviour
MaxOps == 3

\* calls of get_agent and reset_agent in one behaviour
MaxAgentCalls == 4

\* calls of PydanticAIService.chat in one behaviour
MaxPydCalls == 3

\* calls of AgentWidget.add_code_to_history in one behaviour
MaxRecorded == 52

Threads == {"t1", "t2"}
Workers == {"w1", "w2"}
Codes == {"c1", "c2"}

(* ------------------------------ messages ------------------------------- *)
NoCalls == << >>

\* the output of a tool that has not run
NoOut ==
  [ok |-> TRUE, error |-> "none", reported |-> FALSE, changed |-> {},
   text |-> << >>, handled |-> FALSE]

\* HumanMessage(content=message), langgraph_service.py:497
UserMsg(t) ==
  [role |-> "human", kind |-> "user", th |-> t, calls |-> NoCalls, id |-> 0,
   content |-> "user text", out |-> NoOut]

\* HumanMessage(content="Code execution denied by user."), langgraph_service.py:185
DenialMsg(t) ==
  [role |-> "human", kind |-> "denial", th |-> t, calls |-> NoCalls, id |-> 0,
   content |-> "Code execution denied by user.", out |-> NoOut]

\* the content of an AIMessage without tool calls: a plain string, or a list
\* of content blocks that carries the text
ReplyContents == {"text", "blocks"}

\* the text a reply of content c carries
ReplyText(c) == "text"

\* AIMessage returned by llm.bind_tools(tools).invoke, langgraph_service.py:378
AIText(t, c) ==
  [role |-> "ai", kind |-> "text", th |-> t, calls |-> NoCalls, id |-> 0,
   content |-> c, out |-> NoOut]

AICalls(t, cs) ==
  [role |-> "ai", kind |-> "calls", th |-> t, calls |-> cs, id |-> 0,
   content |-> "", out |-> NoOut]

\* ToolMessage appended by ToolNode for one tool call; o is what the tool
\* returned
ToolMsg(t, c, o) ==
  [role |-> "tool", kind |-> c.name, th |-> t, calls |-> NoCalls, id |-> c.id,
   content |-> "tool text", out |-> o]

\* one entry of AIMessage.tool_calls
Call(i, n, c) == [id |-> i, name |-> n, code |-> c]

Last(s) == s[Len(s)]

IsAIWithCalls(m) == m.role = "ai" /\ Len(m.calls) > 0

\* the content chat puts in its ChatResult from the last message of the
\* response, langgraph_service.py:531-547: an AIMessage's list content is
\* joined from str(item) of its items, other content goes through str
ResponseContent(m) ==
  IF m.role = "ai"
  THEN (IF m.content = "blocks" THEN "str of blocks" ELSE m.content)
  ELSE IF m.role = "human" THEN m.content
  ELSE "No content"

(* ------------------------------ kernel --------------------------------- *)
\* KernelInterface.is_available, kernel_interface.py:185-188: the shell
\* exists; it is set when the interface is created
VARIABLE is_available

\* names of shell.user_ns; a name bound to "absent" is not in the namespace
Names == {"p", "n", "x", "y"}

\* code the execution primitive is called with directly: the code the model
\* may request, and "c3", code during which shell.run_cell itself raises
KernelCodes == Codes \cup {"c3"}

\* shell.user_ns when the KernelInterface is created: p is bound to an
\* object, n is bound to None
StartNs ==
  [v \in Names |-> IF v = "p" THEN "o0" ELSE IF v = "n" THEN "None"
                    ELSE "absent"]

\* sys.stdout and sys.stderr outside any execution
Console == [stdout |-> "console", stderr |-> "console"]

\* KernelInterface._namespace_snapshot, kernel_interface.py:183: created
\* empty; no method of the class writes to it
namespace_snapshot == [v \in Names |-> "absent"]

\* self._namespace_snapshot.get(var), kernel_interface.py:338
SnapshotGet(v) ==
  IF namespace_snapshot[v] = "absent" THEN "None" ELSE namespace_snapshot[v]

\* set(self.get_namespace().keys()), kernel_interface.py:306 and 330
Keys(ns) == { v \in Names : ns[v] # "absent" }

NoError == [type |-> "none", message |-> "none", traceback |-> FALSE]

\* variant: the type name of the exception is not kept
ErrorOf_Generic(e) ==
  [type |-> "Exception", message |-> "str of exception", traceback |-> TRUE]

\* error={"type": type(e).__name__, "message": str(e), "traceback": ...},
\* kernel_interface.py:385-389 and 407-411
ErrorOf(e) == [type |-> e, message |-> "str of exception", traceback |-> TRUE]

\* shell.run_cell(code) as the k-th execution of the kernel: what the code
\* does to the namespace, what it writes, and how it ends.
\*   c1   print; x = 1                  ends normally
\*   c2   print; y = 2; 1/0             the cell fails: error_in_exec
\*   c3   print; then run_cell raises   an exception leaves run_cell
run_cell(ns, code, k) ==
  [ns |-> IF code = "c1" THEN [ns EXCEPT !["x"] = "o1"]
          ELSE IF code = "c2" THEN [ns EXCEPT !["y"] = "o2"]
          ELSE ns,
   written |-> << [code |-> code, k |-> k] >>,
   error_in_exec |-> IF code = "c2" THEN "ZeroDivisionError" ELSE "none",
   raised |-> IF code = "c3" THEN "RuntimeError" ELSE "none"]

\* variant: __exit__ leaves the streams on the buffers
redirect_exit_Kept(saved, body) ==
  IF body.raised # "none"
  THEN [stdout |-> "stdout_buffer", stderr |-> "stderr_buffer"]
  ELSE saved

\* leaving "with redirect_stdout(...), redirect_stderr(...)",
\* kernel_interface.py:322-325: the targets saved on entry are put back,
\* whether the body ended normally or raised
redirect_exit(saved, body) == saved

\* modified_vars, kernel_interface.py:333-341
modified_vars(before, after) ==
  { v \in Keys(before) \cap Keys(after) : after[v] # SnapshotGet(v) }

\* variant: the namespace is looked at before availability is tested
KernelNotAvailable_AfterSnapshot(ns, st) ==
  [success |-> FALSE, outputs |-> << >>, variables_changed |-> {},
   error |-> [type |-> "KernelError", message |-> "Kernel not available",
              traceback |-> FALSE],
   ns |-> ns, streams |-> st, snapshots |-> 1, ran |-> FALSE]

\* the ExecutionResult returned when the kernel is not available,
\* kernel_interface.py:295-303
KernelNotAvailable(ns, st) ==
  [success |-> FALSE, outputs |-> << >>, variables_changed |-> {},
   error |-> [type |-> "KernelError", message |-> "Kernel not available",
              traceback |-> FALSE],
   ns |-> ns, streams |-> st, snapshots |-> 0, ran |-> FALSE]

\* KernelInterface.execute_code, kernel_interface.py:291-412, as the k-th
\* execution, from namespace ns and stream targets st: the ExecutionResult,
\* with the namespace and the stream targets it leaves behind, the number
\* of times get_namespace was called and whether run_cell was called
execute_code(ns, st, code, k) ==
  LET body    == run_cell(ns, code, k)
      left    == redirect_exit(st, body)
      changed == (Keys(body.ns) \ Keys(ns)) \cup modified_vars(ns, body.ns)
  IN IF ~is_available THEN KernelNotAvailable(ns, st)
     ELSE IF body.raised # "none"
     THEN [success |-> FALSE, outputs |-> << >>, variables_changed |-> {},
           error |-> ErrorOf(body.raised), ns |-> body.ns, streams |-> left,
           snapshots |-> 1, ran |-> TRUE]
     ELSE IF body.error_in_exec # "none"
     THEN [success |-> FALSE, outputs |-> body.written,
           variables_changed |-> changed,
           error |-> ErrorOf(body.error_in_exec), ns |-> body.ns,
           streams |-> left, snapshots |-> 2, ran |-> TRUE]
     ELSE [success |-> TRUE, outputs |-> body.written,
           variables_changed |-> changed, error |-> NoError,
           ns |-> body.ns, streams |-> left, snapshots |-> 2, ran |-> TRUE]

\* variant: the tool result never lists changed names
ExecuteCodeTool_run_NoNames(res) ==
  IF res.success
  THEN [ok |-> TRUE, error |-> "none", reported |-> FALSE, changed |-> {},
        text |-> res.outputs, handled |-> TRUE]
  ELSE [ok |-> FALSE, error |-> res.error.type, reported |-> FALSE,
        changed |-> {}, text |-> << >>, handled |-> TRUE]

\* ExecuteCodeTool._run, kernel_tools.py:109-145, from the ExecutionResult on:
\* a success lists the outputs and, when there are any, the changed names;
\* a failure lists the error type, its message and the traceback only
ExecuteCodeTool_run(res) ==
  IF res.success
  THEN [ok |-> TRUE, error |-> "none",
        reported |-> res.variables_changed # {},
        changed |-> res.variables_changed, text |-> res.outputs,
        handled |-> TRUE]
  ELSE [ok |-> FALSE, error |-> res.error.type, reported |-> FALSE,
        changed |-> {}, text |-> << >>, handled |-> TRUE]

\* "Kernel is not available", what ExecuteCodeTool._run returns without
\* calling the kernel, kernel_tools.py:111-112
KernelNotAvailableOut ==
  [ok |-> FALSE, error |-> "Kernel is not available", reported |-> FALSE,
   changed |-> {}, text |-> << >>, handled |-> TRUE]

\* what the _run of a read-only tool (get_variables, ...) returns
ReadOnlyOut ==
  [ok |-> TRUE, error |-> "none", reported |-> FALSE, changed |-> {},
   text |-> << >>, handled |-> TRUE]

\* variant: a call of an unknown tool is answered like a read-only tool
InvalidToolOut_Handled ==
  [ok |-> TRUE, error |-> "none", reported |-> FALSE, changed |-> {},
   text |-> << >>, handled |-> TRUE]

\* the ToolMessage content ToolNode makes up for a tool call whose name is
\* not among its tools; no tool is called
InvalidToolOut ==
  [ok |-> FALSE, error |-> "not a valid tool", reported |-> FALSE,
   changed |-> {}, text |-> << >>, handled |-> FALSE]

(* ------------------------------ components ----------------------------- *)
VARIABLES
  requests,           \* messages given to MessageHandlers.handle_message
  responses,          \* what handle_message returned for them, in order
  execution_history,  \* MessageHandlers.execution_history
  ai_service,         \* AgentWidget.ai_service
  chat_history,       \* AgentWidget.chat_history
  action_buttons,     \* AgentWidget.action_buttons
  handled,            \* the operations the widget has handled, in order
  approval_pending,   \* whether the widget's thread is suspended in
                      \* ai_service awaiting an approval decision
  is_loading,         \* AgentWidget.is_loading
  code_history,       \* AgentWidget.code_history
  recorded,           \* calls of add_code_to_history so far
  global_agent,       \* global_agent._global_agent (0 is None)
  agent_lock,         \* global_agent._agent_lock: its holder
  gpc,                \* per thread: position in get_agent / reset_agent
  gargs,              \* per thread: arguments of the running call
  returned,           \* what the calls of get_agent returned, in order
  instances,          \* the ai_config of every AgentWidget created
  closed,             \* the instances close() was called on
  resetsStarted,      \* calls begun that discard the instance
  resetsDone,         \* such calls that have returned
  pyd_ckpt,           \* PydanticAIService.memory: checkpoint of every thread
  pyd_execs,          \* code PydanticAIService gave to kernel.execute_code
  pyd_result,         \* the ChatResult PydanticAIService.chat returned last
  pyd_calls           \* calls of PydanticAIService.chat so far

handlerVars == << requests, responses, execution_history >>

widgetVars == << ai_service, chat_history, action_buttons, handled,
                approval_pending, is_loading, code_history, recorded >>

globalVars == << global_agent, agent_lock, gpc, gargs, returned, instances,
                 closed, resetsStarted, resetsDone >>

pydVars == << pyd_ckpt, pyd_execs, pyd_result, pyd_calls >>

componentVars == << handlerVars, widgetVars, globalVars, pydVars >>

GThreads == {"g1", "g2"}

NoArgs == [fn |-> "none", ai_config |-> "none", reset |-> FALSE,
           overlap |-> FALSE, started |-> 0, done |-> 0]

\* a thread PydanticAIService.memory holds nothing for: no checkpoint, no
\* task waiting, no resume value, no approval request raised
PydEmpty ==
  [exists |-> FALSE, messages |-> << >>, next |-> "none", resume |-> << >>,
   request |-> "none"]

PydNoResult ==
  [kind |-> "none", success |-> FALSE, interrupted |-> FALSE, th |-> "t1",
   cmd |-> "none", content |-> "none", request |-> "none"]

(* ------------------------------ state ---------------------------------- *)
VARIABLES
  require_approval,   \* LangGraphAIService.require_approval
  scanBack,           \* which ToolNode the installed langgraph provides
  ckpt,               \* MemorySaver: latest checkpoint of every thread
  pc,                 \* per caller: node of the graph its invoke is at
  wthread,            \* per caller: thread_id of the running chat call
  wmsgs,              \* per caller: messages channel of the running invoke
  wpending,           \* per caller: pending_approval channel of the invoke
  wcmd,               \* per caller: payload kind of the running chat call
  wresume,            \* per caller: unconsumed Command(resume=...) value
  winfer,             \* per caller: model invocations in the running call
  wsteps,             \* per caller: steps taken by the running invoke
  wloaded,            \* per caller: checkpoint node found when the call began
  wsusp,              \* per caller: execute_code calls suspended at that point
  wprev,              \* per caller: the call made on the thread before this one
  lastCall,           \* per thread: payload and starting node of the last call
  result,             \* the ChatResult most recently returned by chat
  execLog,            \* code run by kernel.execute_code, in order
  nextId,             \* tool call ids handed out by the model
  shown,              \* approval requests returned to callers
  approvedIds,        \* calls pending when an approved decision arrived
  user_ns,            \* shell.user_ns, the namespace code runs against
  sys_streams,        \* the targets of sys.stdout and sys.stderr
  wevents,            \* per caller: starts and ends of the tool calls of the
                      \* ToolNode run that has just finished
  nToolReplies, nCalls, nDirect

serviceVars == << require_approval, scanBack, is_available, ckpt, pc, wthread,
           wmsgs, wpending,
           wcmd, wresume, winfer, wsteps, wloaded, wsusp, wprev, lastCall, result,
           execLog, nextId, shown, approvedIds, user_ns, sys_streams,
           wevents, nToolReplies, nCalls, nDirect >>

vars == << serviceVars, componentVars >>

\* AgentState defaults, langgraph_service.py:35-68; "exists" is false until
\* the checkpointer holds a checkpoint for the thread
EmptyCkpt ==
  [exists |-> FALSE, messages |-> << >>, next |-> "none",
   pending_approval |-> FALSE]

NoCall == [cmd |-> "none", loaded |-> "none"]

NoResult ==
  [kind |-> "none", success |-> FALSE, interrupted |-> FALSE, th |-> "t1",
   cmd |-> "none", infer |-> 0, loaded |-> "none", error |-> "none",
   content |-> "none", w |-> "w1", susp |-> << >>, prev |-> NoCall]

Init ==
  /\ require_approval \in BOOLEAN
  \* the two ToolNodes differ only after a denial, which takes the
  \* approval node
  /\ scanBack \in (IF require_approval THEN BOOLEAN ELSE {FALSE})
  /\ is_available \in BOOLEAN
  /\ ckpt = [t \in Threads |-> EmptyCkpt]
  /\ pc = [w \in Workers |-> "idle"]
  /\ wthread = [w \in Workers |-> "t1"]
  /\ wmsgs = [w \in Workers |-> << >>]
  /\ wpending = [w \in Workers |-> FALSE]
  /\ wcmd = [w \in Workers |-> "none"]
  /\ wresume = [w \in Workers |-> "none"]
  /\ winfer = [w \in Workers |-> 0]
  /\ wsteps = [w \in Workers |-> 0]
  /\ wloaded = [w \in Workers |-> "none"]
  /\ wsusp = [w \in Workers |-> << >>]
  /\ wprev = [w \in Workers |-> NoCall]
  /\ lastCall = [t \in Threads |-> NoCall]
  /\ result = NoResult
  /\ execLog = << >>
  /\ nextId = 1
  /\ shown = {}
  /\ approvedIds = {}
  /\ user_ns = StartNs
  /\ sys_streams = Console
  /\ wevents = [w \in Workers |-> << >>]
  /\ nToolReplies = 0
  /\ nCalls = 0
  /\ nDirect = 0
  /\ requests = << >>
  /\ responses = << >>
  /\ execution_history = << >>
  /\ ai_service = "unset"
  /\ chat_history = << >>
  /\ action_buttons = << >>
  /\ handled = << >>
  /\ approval_pending = FALSE
  /\ is_loading = FALSE
  /\ code_history = << >>
  /\ recorded = 0
  /\ global_agent = 0
  /\ agent_lock = "free"
  /\ gpc = [g \in GThreads |-> "idle"]
  /\ gargs = [g \in GThreads |-> NoArgs]
  /\ returned = << >>
  /\ instances = << >>
  /\ closed = {}
  /\ resetsStarted = 0
  /\ resetsDone = 0
  /\ pyd_ckpt = [t \in Threads |-> PydEmpty]
  /\ pyd_execs = << >>
  /\ pyd_result = PydNoResult
  /\ pyd_calls = 0


(* ------------------------------ routing -------------------------------- *)
HasExec(cs) == \E i \in DOMAIN cs : cs[i].name = "execute_code"

\* should_continue, langgraph_service.py:127-137
should_continue(msgs) ==
  IF msgs = << >> THEN "none"
  ELSE IF IsAIWithCalls(Last(msgs)) THEN "tools" ELSE "none"

\* variant: only the first tool call of the message is looked at
should_require_approval_FirstCall(msgs) ==
  IF msgs = << >> THEN "none"
  ELSE IF ~IsAIWithCalls(Last(msgs)) THEN "none"
  ELSE IF Last(msgs).calls[1].name = "execute_code" THEN "approval"
  ELSE "tools"

\* should_require_approval, langgraph_service.py:140-157
should_require_approval(msgs) ==
  IF msgs = << >> THEN "none"
  ELSE IF ~IsAIWithCalls(Last(msgs)) THEN "none"
  ELSE IF HasExec(Last(msgs).calls) THEN "approval"
  ELSE "tools"

\* variant: the graph is built with the approval node whatever the flag
RouteAfterAgent_Always(msgs, ra) == should_require_approval(msgs)

\* the conditional edges out of "agent", create_agent_graph,
\* langgraph_service.py:403-426
RouteAfterAgent(msgs, ra) ==
  IF ra THEN should_require_approval(msgs) ELSE should_continue(msgs)

\* code_blocks of approval_node, langgraph_service.py:167-173: the
\* execute_code calls of the last message, in order
RECURSIVE ExecCallsOf(_)
ExecCallsOf(cs) ==
  IF cs = << >> THEN << >>
  ELSE (IF cs[1].name = "execute_code" THEN << cs[1] >> ELSE << >>)
       \o ExecCallsOf(Tail(cs))

code_blocks(msgs) ==
  IF msgs # << >> /\ IsAIWithCalls(Last(msgs))
  THEN ExecCallsOf(Last(msgs).calls) ELSE << >>

(* ------------------------------ the model ------------------------------ *)
\* what llm.bind_tools(tools).invoke may return: the tool_calls of the
\* reply (empty for a plain text reply), ids taken from nextId
ToolCallLists ==
  { << >> }
  \cup { << Call(nextId, "execute_code", c) >> : c \in Codes }
  \cup { << Call(nextId, "get_variables", "none") >> }
  \cup { << Call(nextId, "get_variables", "none"),
            Call(nextId + 1, "execute_code", "c1") >> }
  \cup { << Call(nextId, "get_variables", "none"),
            Call(nextId + 1, "get_variables", "none") >> }
  \cup { << Call(nextId, "no_such_tool", "none") >> }

(* ------------------------------ ToolNode ------------------------------- *)
\* index of the message whose tool_calls ToolNode runs; 0 when ToolNode
\* raises ValueError.  Releases of langgraph differ: one takes the last
\* message and requires it to be an AIMessage, the other takes the most
\* recent AIMessage of the list.
RECURSIVE LatestAI(_, _)
LatestAI(msgs, i) ==
  IF i = 0 THEN 0
  ELSE IF msgs[i].role = "ai" THEN i ELSE LatestAI(msgs, i - 1)

ToolNodeTarget(msgs, scan) ==
  IF msgs = << >> THEN 0
  ELSE IF scan THEN LatestAI(msgs, Len(msgs))
  ELSE IF Last(msgs).role = "ai" THEN Len(msgs) ELSE 0

\* whether the denial message of approval_node follows message i
DeniedSince(msgs, i) ==
  \E j \in DOMAIN msgs : j > i /\ msgs[j].kind = "denial"

Ids(cs) == { cs[i].id : i \in DOMAIN cs }

\* the names of the tools the graph is built with, create_kernel_tools
ToolNames == {"execute_code", "get_variables"}

\* the tool calls of one AIMessage run by ToolNode, each through the _run of
\* its tool (ExecuteCodeTool._run -> kernel.execute_code(code),
\* kernel_tools.py:109-145), from namespace ns and stream targets st, the
\* next execution of the kernel being its k-th: the ToolMessages in call
\* order, the entries added to the kernel's history, and the namespace and
\* stream targets left behind
RECURSIVE RunCalls(_, _, _, _, _, _)
RunCalls(cs, ns, st, k, t, tag) ==
  IF cs = << >>
  THEN [ns |-> ns, streams |-> st, msgs |-> << >>, entries |-> << >>]
  ELSE LET c    == cs[1]
           exec == c.name = "execute_code" /\ is_available
           res  == execute_code(ns, st, c.code, k)
           out  == IF exec THEN ExecuteCodeTool_run(res)
                   ELSE IF c.name = "execute_code" THEN KernelNotAvailableOut
                   ELSE IF c.name \in ToolNames THEN ReadOnlyOut
                   ELSE InvalidToolOut
           rest == IF exec
                   THEN RunCalls(Tail(cs), res.ns, res.streams, k + 1, t, tag)
                   ELSE RunCalls(Tail(cs), ns, st, k, t, tag)
       IN [ns |-> rest.ns, streams |-> rest.streams,
           msgs |-> << ToolMsg(t, c, out) >> \o rest.msgs,
           entries |->
             (IF exec
              THEN << [id |-> c.id, code |-> c.code, by |-> tag,
                       before |-> ns, res |-> res] >>
              ELSE << >>) \o rest.entries]

\* the start and the end of tool call i of one ToolNode run
Started(i) == [ev |-> "start", call |-> i]

Ended(i) == [ev |-> "end", call |-> i]

Events(n) == { Started(i) : i \in 1..n } \cup { Ended(i) : i \in 1..n }

Pos(s, e) == CHOOSE j \in DOMAIN s : s[j] = e

\* ToolNode hands the n tool calls of the message to a thread pool
\* (executor.map over the calls) and collects the results in call order: the
\* orders in which the calls may start and end
Schedules(n) ==
  { s \in [1..(2 * n) -> Events(n)] :
      /\ \A e \in Events(n) : \E j \in DOMAIN s : s[j] = e
      /\ \A i \in 1..n : Pos(s, Started(i)) < Pos(s, Ended(i)) }

(* ------------------------------ ChatResult ----------------------------- *)
\* ChatResult(...) as built by chat, langgraph_service.py:523-528, 558-562,
\* 576-581
Result(w, k, ok, intr, err, inf, c) ==
  [kind |-> k, success |-> ok, interrupted |-> intr, th |-> wthread[w],
   cmd |-> wcmd[w], infer |-> inf, loaded |-> wloaded[w],
   error |-> err, content |-> c, w |-> w, susp |-> wsusp[w],
   prev |-> wprev[w]]

\* ChatResult.needs_approval, langgraph_service.py:82-85
needs_approval(r) == r.interrupted /\ r.kind = "interrupted"


(* ------------------------------ chat ----------------------------------- *)
\* variant: a node's messages take the place of the transcript
add_messages_Replace(left, right) == IF right = << >> THEN left ELSE right

\* the reducer of AgentState.messages: what a node returns under
\* "messages" is put after the messages the state holds (every message of
\* the model is a new one, so none takes the place of an earlier message
\* with the same id)
add_messages(left, right) == left \o right

\* variant: the invoke is stopped one step later
RecursionLimitReached_Late(n) == n > RecursionLimit

\* graph.invoke(input_data, config) stops an invoke that has taken the
\* recursion limit's number of steps without reaching END
RecursionLimitReached(n) == n >= RecursionLimit

\* a checkpoint written by the running invoke of caller w
Saved(msgs, nxt, pend) ==
  [exists |-> TRUE, messages |-> msgs, next |-> nxt,
   pending_approval |-> pend]

\* variant: every call uses one key, whatever thread_id it was given
ConfigThread_Shared(t) == "t1"

\* the key under which an invoke reads and writes the checkpointer:
\* config = {"configurable": {"thread_id": thread_id}},
\* langgraph_service.py:507
ConfigThread(t) == t

\* chat returns r to caller w; the locals of the call are gone
Return(w, r) ==
  /\ result' = r
  /\ pc' = [pc EXCEPT ![w] = "idle"]
  /\ wthread' = [wthread EXCEPT ![w] = "t1"]
  /\ wmsgs' = [wmsgs EXCEPT ![w] = << >>]
  /\ wpending' = [wpending EXCEPT ![w] = FALSE]
  /\ wcmd' = [wcmd EXCEPT ![w] = "none"]
  /\ wresume' = [wresume EXCEPT ![w] = "none"]
  /\ winfer' = [winfer EXCEPT ![w] = 0]
  /\ wsteps' = [wsteps EXCEPT ![w] = 0]
  /\ wloaded' = [wloaded EXCEPT ![w] = "none"]
  /\ wsusp' = [wsusp EXCEPT ![w] = << >>]
  /\ wprev' = [wprev EXCEPT ![w] = NoCall]
  /\ wevents' = [wevents EXCEPT ![w] = << >>]

\* a new chat call runs on the first caller that is not inside a call
\* (callers between calls hold no state of their own)
WorkerOrder == << "w1", "w2" >>

FirstIdle(w) ==
  /\ pc[w] = "idle"
  /\ \A i, j \in DOMAIN WorkerOrder :
       (WorkerOrder[j] = w /\ i < j) => pc[WorkerOrder[i]] # "idle"

Busy == \E w \in Workers : pc[w] # "idle"

\* the bookkeeping of the bounds when a chat call begins
BeginCall(w, t) ==
  /\ FirstIdle(w)
  /\ nCalls + (IF Busy THEN 2 ELSE 1) <= MaxCalls
  /\ nCalls' = nCalls + (IF Busy THEN 2 ELSE 1)
  \* thread ids are opaque keys: the first call names "t1"
  /\ nCalls = 0 => t = "t1"

\* chat(message: str) for a normal message, langgraph_service.py:490-508:
\* the HumanMessage is added to the thread's messages and the graph starts
\* at its entry point "agent"; tasks left over from an earlier invoke of
\* the thread are dropped
StartTurn(w, t) ==
  /\ UNCHANGED componentVars
  /\ BeginCall(w, t)
  /\ LET k    == ConfigThread(t)
         msgs == add_messages(ckpt[k].messages, << UserMsg(t) >>)
     IN /\ ckpt' = [ckpt EXCEPT ![k] =
                      Saved(msgs, "agent", ckpt[k].pending_approval)]
        /\ wmsgs' = [wmsgs EXCEPT ![w] = msgs]
        /\ wpending' = [wpending EXCEPT ![w] = ckpt[k].pending_approval]
        /\ wloaded' = [wloaded EXCEPT ![w] = ckpt[k].next]
  /\ pc' = [pc EXCEPT ![w] = "agent"]
  /\ wthread' = [wthread EXCEPT ![w] = t]
  /\ wcmd' = [wcmd EXCEPT ![w] = "message"]
  /\ wresume' = [wresume EXCEPT ![w] = "none"]
  /\ winfer' = [winfer EXCEPT ![w] = 0]
  /\ wsteps' = [wsteps EXCEPT ![w] = 0]
  /\ wsusp' = [wsusp EXCEPT ![w] = << >>]
  /\ wprev' = [wprev EXCEPT ![w] = lastCall[t]]
  /\ lastCall' = [lastCall EXCEPT ![t] =
                    [cmd |-> "message", loaded |-> ckpt[t].next]]
  /\ wevents' = [wevents EXCEPT ![w] = << >>]
  /\ UNCHANGED << require_approval, scanBack, is_available, result, execLog, nextId,
                  shown, approvedIds, nToolReplies, user_ns, sys_streams,
                  nDirect >>

\* chat(True | False | "Approve" | "Deny"), langgraph_service.py:475-489,
\* 506-508: Command(resume=decision) continues the thread from its latest
\* checkpoint.  A thread without a checkpoint makes invoke raise; a thread
\* with no task left returns its state unchanged.
Resume(w, t, decision) ==
  /\ UNCHANGED componentVars
  /\ BeginCall(w, t)
  /\ LET k == ConfigThread(t)
         c == ckpt[k]
         susp == IF c.next = "approval" THEN code_blocks(c.messages)
                 ELSE << >>
     IN /\ lastCall' = [lastCall EXCEPT ![t] =
                          [cmd |-> decision, loaded |-> c.next]]
        /\ approvedIds' =
             IF decision = "approved"
             THEN approvedIds \cup { susp[i].id : i \in DOMAIN susp }
             ELSE approvedIds
        /\ IF ~c.exists
           THEN Return(w, [kind |-> "error", success |-> FALSE,
                           interrupted |-> FALSE, th |-> t, cmd |-> decision,
                           infer |-> 0, loaded |-> c.next,
                           error |-> "exception", content |-> "error",
                           w |-> w, susp |-> << >>,
                           prev |-> lastCall[t]])
           ELSE IF c.next = "none"
           THEN Return(w, [kind |-> "final", success |-> TRUE,
                           interrupted |-> FALSE, th |-> t, cmd |-> decision,
                           infer |-> 0, loaded |-> c.next, error |-> "none",
                           content |-> ResponseContent(Last(c.messages)),
                           w |-> w,
                           susp |-> << >>, prev |-> lastCall[t]])
           ELSE /\ pc' = [pc EXCEPT ![w] = c.next]
                /\ wresume' = [wresume EXCEPT ![w] = decision]
                /\ wthread' = [wthread EXCEPT ![w] = t]
                /\ wcmd' = [wcmd EXCEPT ![w] = decision]
                /\ winfer' = [winfer EXCEPT ![w] = 0]
                /\ wsteps' = [wsteps EXCEPT ![w] = 0]
                /\ wloaded' = [wloaded EXCEPT ![w] = c.next]
                /\ wmsgs' = [wmsgs EXCEPT ![w] = c.messages]
                /\ wpending' = [wpending EXCEPT ![w] = c.pending_approval]
                /\ wsusp' = [wsusp EXCEPT ![w] = susp]
                /\ wprev' = [wprev EXCEPT ![w] = lastCall[t]]
                /\ wevents' = [wevents EXCEPT ![w] = << >>]
                /\ result' = result
  /\ UNCHANGED << require_approval, scanBack, is_available, ckpt, execLog, nextId, shown,
                  nToolReplies, user_ns, sys_streams, nDirect >>


(* ------------------------------ graph nodes ---------------------------- *)
\* variant: the failed result does not say what went wrong
Failed_NoError(w, e) ==
  Result(w, "error", FALSE, FALSE, "none", winfer[w], "error")

\* the result chat builds when invoke raised, langgraph_service.py:564-581
Failed(w, e) ==
  Result(w, "error", FALSE, FALSE, e, winfer[w], "error")

\* node "agent" (call_model, langgraph_service.py:366-379) followed by the
\* conditional edge, and, when the edge leads to END, the return of chat
\* (langgraph_service.py:530-562)
AgentReply(w) ==
  /\ UNCHANGED componentVars
  /\ pc[w] = "agent"
  /\ ~RecursionLimitReached(wsteps[w])
  /\ \E cs \in ToolCallLists, c \in ReplyContents :
       /\ cs # << >> => (nToolReplies < MaxToolReplies /\ c = "text")
       /\ LET t    == wthread[w]
              msg  == IF cs = << >> THEN AIText(t, c) ELSE AICalls(t, cs)
              msgs == add_messages(wmsgs[w], << msg >>)
              nxt  == RouteAfterAgent(msgs, require_approval)
          IN /\ ckpt' = [ckpt EXCEPT ![ConfigThread(t)] =
                           Saved(msgs, nxt, wpending[w])]
             /\ IF nxt = "none"
                THEN /\ Return(w, Result(w, "final", TRUE, FALSE, "none",
                                         winfer[w] + 1,
                                         ResponseContent(msg)))
                ELSE /\ pc' = [pc EXCEPT ![w] = nxt]
                     /\ wmsgs' = [wmsgs EXCEPT ![w] = msgs]
                     /\ winfer' = [winfer EXCEPT ![w] = winfer[w] + 1]
                     /\ wsteps' = [wsteps EXCEPT ![w] = wsteps[w] + 1]
                     /\ wresume' = [wresume EXCEPT ![w] = "none"]
                     /\ wevents' = [wevents EXCEPT ![w] = << >>]
                     /\ UNCHANGED << result, wthread, wpending, wcmd,
                                     wloaded, wsusp, wprev >>
       /\ nextId' = nextId + Len(cs)
       /\ nToolReplies' = IF cs = << >> THEN nToolReplies
                          ELSE nToolReplies + 1
  /\ UNCHANGED << lastCall, require_approval, scanBack, is_available, execLog, shown,
                  approvedIds, nCalls, user_ns, sys_streams, nDirect >>

\* the model binding raises inside call_model: invoke raises and chat
\* returns the failed result, langgraph_service.py:564-581
AgentRaise(w) ==
  /\ UNCHANGED componentVars
  /\ pc[w] = "agent"
  /\ ~RecursionLimitReached(wsteps[w])
  /\ Return(w, Failed(w, "model error"))
  /\ UNCHANGED << lastCall, require_approval, scanBack, is_available, ckpt, execLog, nextId,
                  shown, approvedIds, nToolReplies, nCalls, user_ns,
                  sys_streams, nDirect >>

\* variant: chat does not look for "__interrupt__" in the response
Interrupted_AsFinal(w) ==
  Result(w, "final", TRUE, FALSE, "none", winfer[w], "")

\* the result chat builds when the response carries "__interrupt__",
\* langgraph_service.py:510-528
Interrupted(w) ==
  Result(w, "interrupted", TRUE, TRUE, "none", winfer[w], "")

\* approval_node reaching interrupt(...) with no resume value,
\* langgraph_service.py:160-181: the invoke stops, the thread's checkpoint
\* keeps "approval" as its next node, and chat returns the interrupted
\* result, langgraph_service.py:510-528
ApprovalInterrupt(w) ==
  /\ UNCHANGED componentVars
  /\ pc[w] = "approval"
  /\ ~RecursionLimitReached(wsteps[w])
  /\ wresume[w] = "none"
  /\ LET blocks == code_blocks(wmsgs[w])
     IN shown' = shown \cup
          { [th |-> wthread[w], id |-> blocks[i].id, code |-> blocks[i].code]
              : i \in DOMAIN blocks }
  /\ Return(w, Interrupted(w))
  /\ UNCHANGED << lastCall, require_approval, scanBack, is_available, ckpt, execLog, nextId,
                  approvedIds, nToolReplies, nCalls, user_ns, sys_streams,
                  nDirect >>

\* what approval_node returns once interrupt(...) yields the decision,
\* langgraph_service.py:183-189: the messages it adds
ApprovalWrites(t, decision) ==
  IF decision # "approved" THEN << DenialMsg(t) >> ELSE << >>

\* variant: the edge out of "approval" leads back to the model
AfterApproval_ToAgent(decision) == "agent"

\* the node that follows "approval": graph.add_edge("approval", "tools"),
\* langgraph_service.py:416
AfterApproval(decision) == "tools"

\* approval_node re-run by Command(resume=decision)
ApprovalResume(w) ==
  /\ UNCHANGED componentVars
  /\ pc[w] = "approval"
  /\ ~RecursionLimitReached(wsteps[w])
  /\ wsteps' = [wsteps EXCEPT ![w] = wsteps[w] + 1]
  /\ wresume[w] # "none"
  /\ LET t    == wthread[w]
         msgs == add_messages(wmsgs[w], ApprovalWrites(t, wresume[w]))
         nxt  == AfterApproval(wresume[w])
     IN /\ wmsgs' = [wmsgs EXCEPT ![w] = msgs]
        /\ ckpt' = [ckpt EXCEPT ![ConfigThread(t)] = Saved(msgs, nxt, FALSE)]
        /\ pc' = [pc EXCEPT ![w] = nxt]
  /\ wpending' = [wpending EXCEPT ![w] = FALSE]
  /\ wresume' = [wresume EXCEPT ![w] = "none"]
  /\ UNCHANGED << lastCall, require_approval, scanBack, is_available,
                  wthread, wcmd, winfer,
                  wloaded, wsusp, wprev, result, execLog, nextId, shown,
                  approvedIds, nToolReplies, nCalls, user_ns, sys_streams,
                  wevents, nDirect >>

\* node "tools" (ToolNode(tools), langgraph_service.py:401) followed by
\* graph.add_edge("tools", "agent"), langgraph_service.py:428
\* variant: the tools node is its own successor
AfterTools_Stay == "tools"

\* graph.add_edge("tools", "agent"), langgraph_service.py:428
AfterTools == "agent"

ToolsRun(w) ==
  /\ UNCHANGED componentVars
  /\ pc[w] = "tools"
  /\ ~RecursionLimitReached(wsteps[w])
  /\ wsteps' = [wsteps EXCEPT ![w] = wsteps[w] + 1]
  /\ LET t   == wthread[w]
         i   == ToolNodeTarget(wmsgs[w], scanBack)
     IN /\ i # 0
        /\ LET cs   == wmsgs[w][i].calls
               tag  == [th |-> t, cmd |-> wcmd[w],
                        infer |-> winfer[w], loaded |-> wloaded[w],
                        susp |-> wsusp[w], batch |-> ExecCallsOf(cs),
                        afterDenial |-> DeniedSince(wmsgs[w], i)]
               run  == RunCalls(cs, user_ns, sys_streams, Len(execLog) + 1,
                                t, tag)
               msgs == add_messages(wmsgs[w], run.msgs)
           IN /\ execLog' = execLog \o run.entries
              /\ user_ns' = run.ns
              /\ sys_streams' = run.streams
              /\ \E s \in Schedules(Len(cs)) :
                   wevents' = [wevents EXCEPT ![w] = s]
              /\ wmsgs' = [wmsgs EXCEPT ![w] = msgs]
              /\ ckpt' = [ckpt EXCEPT ![ConfigThread(t)] =
                            Saved(msgs, AfterTools, wpending[w])]
  /\ pc' = [pc EXCEPT ![w] = AfterTools]
  /\ wresume' = [wresume EXCEPT ![w] = "none"]
  /\ UNCHANGED << lastCall, require_approval, scanBack, is_available, wthread, wpending, wcmd,
                  winfer, wloaded, wsusp, wprev, result, nextId, shown,
                  approvedIds, nToolReplies, nCalls, nDirect >>

\* ToolNode finds no AIMessage to take tool calls from and raises
\* ValueError; chat returns the failed result
ToolsRaise(w) ==
  /\ UNCHANGED componentVars
  /\ pc[w] = "tools"
  /\ ~RecursionLimitReached(wsteps[w])
  /\ ToolNodeTarget(wmsgs[w], scanBack) = 0
  /\ Return(w, Failed(w, "ValueError"))
  /\ UNCHANGED << lastCall, require_approval, scanBack, is_available, ckpt, execLog, nextId,
                  shown, approvedIds, nToolReplies, nCalls, user_ns,
                  sys_streams, nDirect >>

\* the invoke has taken RecursionLimit steps and the graph has not reached
\* END: langgraph raises GraphRecursionError, and chat returns the failed
\* result, langgraph_service.py:564-581
OutOfSteps(w) ==
  /\ UNCHANGED componentVars
  /\ pc[w] # "idle"
  /\ RecursionLimitReached(wsteps[w])
  /\ Return(w, Failed(w, "GraphRecursionError"))
  /\ UNCHANGED << lastCall, require_approval, scanBack, is_available, ckpt,
                  execLog, nextId, shown, approvedIds, nToolReplies, nCalls,
                  user_ns, sys_streams, nDirect >>

Next ==
  \/ \E w \in Workers, t \in Threads : StartTurn(w, t)
  \/ \E w \in Workers, t \in Threads, d \in {"approved", "denied"} :
       Resume(w, t, d)
  \/ \E w \in Workers : AgentReply(w)
  \/ \E w \in Workers : AgentRaise(w)
  \/ \E w \in Workers : ApprovalInterrupt(w)
  \/ \E w \in Workers : ApprovalResume(w)
  \/ \E w \in Workers : ToolsRun(w)
  \/ \E w \in Workers : ToolsRaise(w)
  \/ \E w \in Workers : OutOfSteps(w)

Spec == Init /\ [][Next]_vars

\* callers that wait for one chat call to return before making the next
\* (the widget handles one frontend message at a time)
NextSerial ==
  \/ \E w \in Workers, t \in Threads : ~Busy /\ StartTurn(w, t)
  \/ \E w \in Workers, t \in Threads, d \in {"approved", "denied"} :
       ~Busy /\ Resume(w, t, d)
  \/ \E w \in Workers : AgentReply(w)
  \/ \E w \in Workers : AgentRaise(w)
  \/ \E w \in Workers : ApprovalInterrupt(w)
  \/ \E w \in Workers : ApprovalResume(w)
  \/ \E w \in Workers : ToolsRun(w)
  \/ \E w \in Workers : ToolsRaise(w)
  \/ \E w \in Workers : OutOfSteps(w)

SpecSerial == Init /\ [][NextSerial]_vars

\* the history entry of an execution that no chat call asked for
DirectTag ==
  [th |-> "t1", cmd |-> "direct", infer |-> 0, loaded |-> "none",
   susp |-> << >>, batch |-> << >>, afterDenial |-> FALSE]

\* kernel.execute_code(code) called directly, kernel_interface.py:291-412
DirectExec(c) ==
  /\ UNCHANGED componentVars
  /\ nDirect < MaxDirect
  /\ nDirect' = nDirect + 1
  /\ LET res == execute_code(user_ns, sys_streams, c, Len(execLog) + 1)
     IN /\ execLog' = Append(execLog, [id |-> 0, code |-> c, by |-> DirectTag,
                                       before |-> user_ns, res |-> res])
        /\ user_ns' = res.ns
        /\ sys_streams' = res.streams
  /\ UNCHANGED << require_approval, scanBack, is_available, ckpt, pc, wthread, wmsgs,
                  wpending, wcmd, wresume, winfer, wsteps, wloaded, wsusp, wprev,
                  lastCall, result, nextId, shown, approvedIds, wevents,
                  nToolReplies, nCalls >>

NextKernel == \E c \in KernelCodes : DirectExec(c)

\* the execution primitive on its own: a caller that runs code directly
SpecKernel == Init /\ [][NextKernel]_vars


(* ------------------------------ MessageHandlers ------------------------ *)
\* the service's variables other than the namespace and the streams
chatVars == << require_approval, scanBack, is_available, ckpt, pc, wthread,
               wmsgs, wpending, wcmd, wresume, winfer, wsteps, wloaded,
               wsusp, wprev, lastCall, result, execLog, nextId, shown,
               approvedIds, wevents, nToolReplies, nCalls, nDirect >>

\* the keys of MessageHandlers.handlers, message_handlers.py:98-105
HandlerTypes ==
  {"get_variables", "inspect_variable", "execute_code", "get_kernel_info",
   "get_stack_trace", "get_history"}

\* what a message may carry under "params": nothing, a value that is not a
\* dictionary, an empty dictionary, {"code": c} or {"name": n}
ParamKinds == {"absent", "notdict", "empty"} \cup KernelCodes \cup {"p", "y"}

\* a message that is not a dictionary
NotADict ==
  [dict |-> FALSE, id |-> "absent", type |-> "absent", params |-> "absent"]

Messages ==
  { NotADict }
  \cup [dict : {TRUE}, id : {"r1", "absent"},
        type : HandlerTypes \cup {"absent", "bogus"}, params : ParamKinds]

\* variant: the id of the message is not looked up
MessageId_Unknown(message) == "unknown"

\* message.get("id", "unknown")
MessageId(message) ==
  IF message.id = "absent" THEN "unknown" ELSE message.id

\* Response.to_dict of _success_response: "data" is present, "error" is not
success_response(request_id, data) ==
  [request_id |-> request_id, success |-> TRUE, data |-> data,
   error |-> "absent"]

\* Response.to_dict of _error_response: "error" is present, "data" is not
error_response(request_id, code) ==
  [request_id |-> request_id, success |-> FALSE, data |-> "absent",
   error |-> code]

\* what a handler gives back: its response, or the exception it raised,
\* and the namespace and streams it leaves
Handled(resp, ns, st, code) ==
  [raised |-> FALSE, response |-> resp, ns |-> ns, streams |-> st,
   code |-> code]

\* params = message.get("params", {}) followed by params.get(...): a value
\* that is not a dictionary has no get
Raised(ns, st) ==
  [raised |-> TRUE, response |-> error_response("none", "none"), ns |-> ns,
   streams |-> st, code |-> "none"]

handle_get_variables(message, ns, st) ==
  IF message.params = "notdict" THEN Raised(ns, st)
  ELSE Handled(success_response(MessageId(message), "variables"), ns, st,
               "none")

handle_inspect_variable(message, ns, st) ==
  IF message.params = "notdict" THEN Raised(ns, st)
  ELSE IF message.params \notin Names
  THEN Handled(error_response(MessageId(message), "INVALID_REQUEST"), ns, st,
               "none")
  ELSE IF ns[message.params] = "absent"
  THEN Handled(error_response(MessageId(message), "VARIABLE_NOT_FOUND"), ns,
               st, "none")
  ELSE Handled(success_response(MessageId(message), "info"), ns, st, "none")

handle_execute_code(message, ns, st, k) ==
  IF message.params = "notdict" THEN Raised(ns, st)
  ELSE IF message.params \notin KernelCodes
  THEN Handled(error_response(MessageId(message), "INVALID_REQUEST"), ns, st,
               "none")
  ELSE LET res == execute_code(ns, st, message.params, k)
       IN Handled(IF res.success
                  THEN success_response(MessageId(message), "result")
                  ELSE error_response(MessageId(message), "EXECUTION_ERROR"),
                  res.ns, res.streams, message.params)

handle_get_kernel_info(message, ns, st) ==
  Handled(success_response(MessageId(message), "kernel_info"), ns, st, "none")

handle_get_stack_trace(message, ns, st) ==
  IF message.params = "notdict" THEN Raised(ns, st)
  ELSE Handled(success_response(MessageId(message), "frames"), ns, st, "none")

handle_get_history(message, ns, st) ==
  IF message.params = "notdict" THEN Raised(ns, st)
  ELSE Handled(success_response(MessageId(message), "items"), ns, st, "none")

\* handler(message) for the handler registered under the message's type
CallHandler(message, ns, st, k) ==
  IF message.type = "get_variables" THEN handle_get_variables(message, ns, st)
  ELSE IF message.type = "inspect_variable"
  THEN handle_inspect_variable(message, ns, st)
  ELSE IF message.type = "execute_code"
  THEN handle_execute_code(message, ns, st, k)
  ELSE IF message.type = "get_kernel_info"
  THEN handle_get_kernel_info(message, ns, st)
  ELSE IF message.type = "get_stack_trace"
  THEN handle_get_stack_trace(message, ns, st)
  ELSE handle_get_history(message, ns, st)

\* MessageHandlers.handle_message, message_handlers.py:108-148
handle_message(message, ns, st, k) ==
  IF ~message.dict
  THEN Handled(error_response("invalid", "INVALID_REQUEST"), ns, st, "none")
  ELSE IF message.type = "absent"
  THEN Handled(error_response(MessageId(message), "INVALID_REQUEST"), ns, st,
               "none")
  ELSE IF message.type \notin HandlerTypes
  THEN Handled(error_response(MessageId(message), "INVALID_REQUEST"), ns, st,
               "none")
  ELSE IF message.type # "get_kernel_info" /\ ~is_available
  THEN Handled(error_response(MessageId(message), "KERNEL_NOT_READY"), ns, st,
               "none")
  ELSE LET h == CallHandler(message, ns, st, k)
       IN IF h.raised
          THEN Handled(error_response(MessageId(message), "UNKNOWN_ERROR"),
                       h.ns, h.streams, h.code)
          ELSE h

\* one call of handlers.handle_message(message)
HandleMessage(message) ==
  /\ Len(requests) < MaxRequests
  /\ LET h == handle_message(message, user_ns, sys_streams,
                             Len(execution_history) + 1)
     IN /\ requests' = Append(requests, message)
        /\ responses' = Append(responses, h.response)
        /\ execution_history' =
             IF h.code = "none" THEN execution_history
             ELSE Append(execution_history, h.code)
        /\ user_ns' = h.ns
        /\ sys_streams' = h.streams
  /\ UNCHANGED << chatVars, widgetVars, globalVars, pydVars >>

NextHandlers == \E message \in Messages : HandleMessage(message)

\* the message handlers on their own, given one message after the other
SpecHandlers == Init /\ [][NextHandlers]_vars

(* ------------------------------ AgentWidget ---------------------------- *)
\* an entry of chat_history; op is the number of the operation that put it
\* there
Entry(role, content, na, k) ==
  [role |-> role, content |-> content, needs_approval |-> na, op |-> k]

\* variant: the new entry is put in front
add_message_Front(history, role, content, k) ==
  << Entry(role, content, FALSE, k) >> \o history

\* AgentWidget.add_message, agent_widget.py:455-459
add_message(history, role, content, k) ==
  Append(history, Entry(role, content, FALSE, k))

\* what the widget tells apart in the ChatResult of ai_service.chat: an
\* approval request, a result with content, a result with empty content
ChatOutcomes == {"approval", "text", "empty"}

\* the texts of user_message events: a chat message and a slash command
UserTexts == {"hello", "/help"}

\* AgentWidget.__init__, agent_widget.py:47-99: the AI service is made only
\* when an ai_config is given
AgentWidget(ai) ==
  /\ ai_service = "unset"
  /\ ai_service' = ai
  /\ UNCHANGED << chat_history, action_buttons, handled, approval_pending,
                  is_loading, code_history, recorded >>
  /\ UNCHANGED << serviceVars, handlerVars, globalVars, pydVars >>

\* widget.add_message(role, content) called from Python
AddMessage(role) ==
  /\ ai_service # "unset"
  /\ Len(handled) < MaxOps
  /\ LET k == Len(handled) + 1
         h == add_message(chat_history, role, "said", k)
     IN /\ chat_history' = h
        /\ handled' = Append(handled, [op |-> "add_message",
                                       before |-> Len(chat_history),
                                       after |-> Len(h), ai |-> ai_service,
                                       what |-> role, loading |-> << >>])
  /\ UNCHANGED << ai_service, action_buttons, approval_pending, is_loading,
                  code_history, recorded >>
  /\ UNCHANGED << serviceVars, handlerVars, globalVars, pydVars >>

\* AgentWidget._handle_user_message, agent_widget.py:130-189
\* the buttons a user_message event leaves when the chat result does not
\* need approval: agent_widget.py:185-186 adds the message and leaves
\* action_buttons as they are
ButtonsAfterReply(buttons) == buttons

\* the values a handler gives is_loading, in order
\* variant: the handler returns without clearing the loading state
LoadingOfHandler_Kept == << TRUE >>

\* self.is_loading = True when the handler begins its work and
\* self.is_loading = False on each of its ways out, agent_widget.py:142,
\* 148, 189 and 372, 384, 405
LoadingOfHandler == << TRUE, FALSE >>

\* is_loading after a handler that assigned it the values of loading
LoadingAfter(loading) ==
  IF loading = << >> THEN is_loading ELSE loading[Len(loading)]

handle_user_message(user_text, outcome, k) ==
  LET h1 == Append(chat_history, Entry("user", user_text, FALSE, k))
  IN IF ai_service # "langgraph"
     THEN [history |-> h1, buttons |-> action_buttons,
           pending |-> approval_pending, loading |-> << >>]
     ELSE IF user_text = "/help"
     THEN [history |-> add_message(h1, "assistant", "command output", k),
           buttons |-> action_buttons, pending |-> approval_pending,
           loading |-> LoadingOfHandler]
     ELSE IF outcome = "approval"
     THEN [history |-> Append(h1, Entry("assistant", "Approval Required",
                                         TRUE, k)),
           buttons |-> << "Approve", "Deny" >>, pending |-> TRUE,
           loading |-> LoadingOfHandler]
     ELSE [history |-> add_message(h1, "assistant", outcome, k),
           buttons |-> ButtonsAfterReply(action_buttons),
           \* a turn that ends without an interrupt leaves the thread at
           \* no approval node
           pending |-> FALSE, loading |-> LoadingOfHandler]

\* a {"type": "user_message"} event from the frontend, agent_widget.py:107-110
UserMessage(user_text) ==
  /\ ai_service # "unset"
  /\ Len(handled) < MaxOps
  /\ \E outcome \in ChatOutcomes :
       LET r == handle_user_message(user_text, outcome, Len(handled) + 1)
       IN /\ chat_history' = r.history
          /\ action_buttons' = r.buttons
          /\ approval_pending' = r.pending
          /\ is_loading' = LoadingAfter(r.loading)
          /\ handled' = Append(handled, [op |-> "user_message",
                                         before |-> Len(chat_history),
                                         after |-> Len(r.history),
                                         ai |-> ai_service,
                                         what |-> user_text,
                                         loading |-> r.loading])
  /\ UNCHANGED << ai_service, code_history, recorded >>
  /\ UNCHANGED << serviceVars, handlerVars, globalVars, pydVars >>

\* whether chat_history holds an approval request, agent_widget.py:376-380
HasApprovalRequest(history) ==
  \E j \in DOMAIN history : history[j].needs_approval

\* AgentWidget._handle_approval, agent_widget.py:370-413
handle_approval(approved, outcome, k) ==
  IF ~HasApprovalRequest(chat_history) \/ ai_service # "langgraph"
  THEN [history |-> add_message(chat_history, "system",
                                "No pending approval", k),
        pending |-> approval_pending, loading |-> LoadingOfHandler]
  ELSE [history |->
          \* the content of an interrupted result is its approval request
          IF outcome \in {"text", "approval"}
          THEN add_message(chat_history, "assistant", outcome, k)
          ELSE IF approved
          THEN add_message(chat_history, "system", "approved", k)
          ELSE add_message(chat_history, "system", "denied", k),
        pending |-> outcome = "approval", loading |-> LoadingOfHandler]

\* AgentWidget._handle_action_button for the buttons Approve, Deny and
\* Cancel, agent_widget.py:330-368
ActionButton(action) ==
  /\ ai_service # "unset"
  /\ Len(handled) < MaxOps
  /\ \E outcome \in ChatOutcomes :
       LET k == Len(handled) + 1
           r == IF action = "Cancel"
                THEN [history |-> add_message(chat_history, "system",
                                              "Cancelled", k),
                      pending |-> approval_pending, loading |-> << >>]
                ELSE handle_approval(action = "Approve", outcome, k)
       IN /\ chat_history' = r.history
          /\ approval_pending' = r.pending
          /\ is_loading' = LoadingAfter(r.loading)
          /\ handled' = Append(handled, [op |-> "action_button",
                                         before |-> Len(chat_history),
                                         after |-> Len(r.history),
                                         ai |-> ai_service,
                                         what |-> action,
                                         loading |-> r.loading])
  /\ action_buttons' = << >>
  /\ UNCHANGED << ai_service, code_history, recorded >>
  /\ UNCHANGED << serviceVars, handlerVars, globalVars, pydVars >>

NextWidget ==
  \/ \E ai \in {"none", "langgraph"} : AgentWidget(ai)
  \/ \E role \in {"user", "assistant", "system"} : AddMessage(role)
  \/ \E user_text \in UserTexts : UserMessage(user_text)
  \/ \E action \in {"Approve", "Deny", "Cancel"} : ActionButton(action)

\* one widget, handling one operation after the other
SpecWidget == Init /\ [][NextWidget]_vars

\* "Keep only the last 50 code executions", agent_widget.py:503-505
HistoryLimit == 50

\* variant: the entries kept are the first ones
add_code_to_history_First(history, entry) ==
  LET new_history == Append(history, entry)
  IN IF Len(new_history) > HistoryLimit
     THEN SubSeq(new_history, 1, HistoryLimit)
     ELSE new_history

\* AgentWidget.add_code_to_history, agent_widget.py:483-506
add_code_to_history(history, entry) ==
  LET new_history == Append(history, entry)
  IN IF Len(new_history) > HistoryLimit
     THEN SubSeq(new_history, Len(new_history) - HistoryLimit + 1,
                 Len(new_history))
     ELSE new_history

\* an execution is recorded: add_code_to_history is called by /exec, by
\* Confirm Clear, by widget.execute_code or by _on_code_executed,
\* agent_widget.py:287, 348, 518, 642; the entry carries the number of the
\* call
RecordExecution ==
  /\ ai_service # "unset"
  /\ recorded < MaxRecorded
  /\ recorded' = recorded + 1
  /\ code_history' = add_code_to_history(code_history,
                                         [code |-> "c1", n |-> recorded + 1])
  /\ UNCHANGED << ai_service, chat_history, action_buttons, handled,
                  approval_pending, is_loading >>
  /\ UNCHANGED << serviceVars, handlerVars, globalVars, pydVars >>

NextHistory ==
  \/ \E ai \in {"none", "langgraph"} : AgentWidget(ai)
  \/ RecordExecution

\* one widget recording executions one after the other
SpecHistory == Init /\ [][NextHistory]_vars

(* ------------------------------ global_agent --------------------------- *)
\* the ai_config arguments of get_agent
AgentConfigs == {"none", "custom"}

\* calls of get_agent and reset_agent begun so far
AgentCallsBegun ==
  Len(returned) + Cardinality({ g \in GThreads : gpc[g] # "idle" })

\* variant: the lock is taken whether or not it is held
AgentLockFree_Always == TRUE

\* _agent_lock can be acquired
AgentLockFree == agent_lock = "free"

\* a thread calls get_agent(ai_config, reset), global_agent.py:19-21
CallGetAgent(g, cfg, reset) ==
  /\ gpc[g] = "idle"
  /\ AgentCallsBegun < MaxAgentCalls
  \* threads are interchangeable: the first call is made by "g1"
  /\ AgentCallsBegun = 0 => g = "g1"
  \* a call with reset passes no ai_config
  /\ reset => cfg = "none"
  /\ gargs' = [gargs EXCEPT ![g] =
                 [fn |-> "get_agent", ai_config |-> cfg, reset |-> reset,
                  overlap |-> \E h \in GThreads : gpc[h] # "idle",
                  started |-> resetsStarted, done |-> resetsDone]]
  /\ resetsStarted' = IF reset THEN resetsStarted + 1 ELSE resetsStarted
  /\ gpc' = [gpc EXCEPT ![g] = "acquire"]
  /\ UNCHANGED << global_agent, agent_lock, returned, instances, closed,
                  resetsDone >>
  /\ UNCHANGED << serviceVars, handlerVars, widgetVars, pydVars >>

\* a thread calls reset_agent(), global_agent.py:102
CallResetAgent(g) ==
  /\ gpc[g] = "idle"
  /\ AgentCallsBegun < MaxAgentCalls
  /\ AgentCallsBegun = 0 => g = "g1"
  /\ gargs' = [gargs EXCEPT ![g] =
                 [fn |-> "reset_agent", ai_config |-> "none", reset |-> TRUE,
                  overlap |-> \E h \in GThreads : gpc[h] # "idle",
                  started |-> resetsStarted, done |-> resetsDone]]
  /\ resetsStarted' = resetsStarted + 1
  /\ gpc' = [gpc EXCEPT ![g] = "acquire"]
  /\ UNCHANGED << global_agent, agent_lock, returned, instances, closed,
                  resetsDone >>
  /\ UNCHANGED << serviceVars, handlerVars, widgetVars, pydVars >>

\* "with _agent_lock:" is entered, global_agent.py:65 and 110
Acquire(g) ==
  /\ gpc[g] = "acquire"
  /\ AgentLockFree
  /\ agent_lock' = g
  /\ gpc' = [gpc EXCEPT ![g] =
               IF gargs[g].fn = "get_agent" THEN "check" ELSE "reset"]
  /\ UNCHANGED << global_agent, gargs, returned, instances, closed,
                  resetsStarted, resetsDone >>
  /\ UNCHANGED << serviceVars, handlerVars, widgetVars, pydVars >>

\* "if _global_agent is None or reset:", global_agent.py:66
Check(g) ==
  /\ gpc[g] = "check"
  /\ gpc' = [gpc EXCEPT ![g] =
               IF gargs[g].reset /\ global_agent # 0 THEN "close"
               ELSE IF global_agent = 0 \/ gargs[g].reset THEN "create"
               ELSE "release"]
  /\ UNCHANGED << global_agent, agent_lock, gargs, returned, instances,
                  closed, resetsStarted, resetsDone >>
  /\ UNCHANGED << serviceVars, handlerVars, widgetVars, pydVars >>

\* the old instance is closed when reset is set, global_agent.py:67-72;
\* _global_agent still names it
CloseOld(g) ==
  /\ gpc[g] = "close"
  /\ closed' = closed \cup { global_agent }
  /\ gpc' = [gpc EXCEPT ![g] = "create"]
  /\ UNCHANGED << global_agent, agent_lock, gargs, returned, instances,
                  resetsStarted, resetsDone >>
  /\ UNCHANGED << serviceVars, handlerVars, widgetVars, pydVars >>

\* a new AgentWidget is made and stored, global_agent.py:74-97
Create(g) ==
  /\ gpc[g] = "create"
  /\ instances' = Append(instances, [ai_config |-> gargs[g].ai_config,
                                      epoch |-> resetsStarted])
  /\ global_agent' = Len(instances) + 1
  /\ gpc' = [gpc EXCEPT ![g] = "release"]
  /\ UNCHANGED << agent_lock, gargs, returned, closed, resetsStarted,
                  resetsDone >>
  /\ UNCHANGED << serviceVars, handlerVars, widgetVars, pydVars >>

\* reset_agent closes the instance, global_agent.py:111-115; with no
\* instance the with block is left at once
Reset(g) ==
  /\ gpc[g] = "reset"
  /\ closed' = IF global_agent # 0 THEN closed \cup { global_agent }
               ELSE closed
  /\ gpc' = [gpc EXCEPT ![g] = IF global_agent # 0 THEN "clear"
                               ELSE "release"]
  /\ UNCHANGED << global_agent, agent_lock, gargs, returned, instances,
                  resetsStarted, resetsDone >>
  /\ UNCHANGED << serviceVars, handlerVars, widgetVars, pydVars >>

\* "_global_agent = None", global_agent.py:116
ClearAgent(g) ==
  /\ gpc[g] = "clear"
  /\ global_agent' = 0
  /\ gpc' = [gpc EXCEPT ![g] = "release"]
  /\ UNCHANGED << agent_lock, gargs, returned, instances, closed,
                  resetsStarted, resetsDone >>
  /\ UNCHANGED << serviceVars, handlerVars, widgetVars, pydVars >>

\* what a finished call leaves in the history of calls
Returned(g, value) ==
  [fn |-> gargs[g].fn, th |-> g, ai_config |-> gargs[g].ai_config,
   reset |-> gargs[g].reset, overlap |-> gargs[g].overlap, value |-> value,
   \* no call that discards the instance ran while this call ran
   undisturbed |-> /\ gargs[g].started = gargs[g].done
                   /\ resetsStarted = gargs[g].started,
   epoch |-> resetsStarted,
   closedValue |-> value \in closed]

\* the with block is left; reset_agent returns here
Release(g) ==
  /\ gpc[g] = "release"
  /\ agent_lock' = "free"
  /\ IF gargs[g].fn = "get_agent"
     THEN /\ gpc' = [gpc EXCEPT ![g] = "return"]
          /\ UNCHANGED << gargs, returned, resetsDone >>
     ELSE /\ gpc' = [gpc EXCEPT ![g] = "idle"]
          /\ returned' = Append(returned, Returned(g, 0))
          /\ gargs' = [gargs EXCEPT ![g] = NoArgs]
          /\ resetsDone' = resetsDone + 1
  /\ UNCHANGED << global_agent, instances, closed, resetsStarted >>
  /\ UNCHANGED << serviceVars, handlerVars, widgetVars, pydVars >>

\* "return _global_agent", after the with block, global_agent.py:99
ReturnAgent(g) ==
  /\ gpc[g] = "return"
  /\ returned' = Append(returned, Returned(g, global_agent))
  /\ resetsDone' = IF gargs[g].reset THEN resetsDone + 1 ELSE resetsDone
  /\ gargs' = [gargs EXCEPT ![g] = NoArgs]
  /\ gpc' = [gpc EXCEPT ![g] = "idle"]
  /\ UNCHANGED << global_agent, agent_lock, instances, closed,
                  resetsStarted >>
  /\ UNCHANGED << serviceVars, handlerVars, widgetVars, pydVars >>

NextGlobal ==
  \/ \E g \in GThreads, cfg \in AgentConfigs, reset \in BOOLEAN :
       CallGetAgent(g, cfg, reset)
  \/ \E g \in GThreads : CallResetAgent(g)
  \/ \E g \in GThreads : Acquire(g)
  \/ \E g \in GThreads : Check(g)
  \/ \E g \in GThreads : CloseOld(g)
  \/ \E g \in GThreads : Create(g)
  \/ \E g \in GThreads : Reset(g)
  \/ \E g \in GThreads : ClearAgent(g)
  \/ \E g \in GThreads : Release(g)
  \/ \E g \in GThreads : ReturnAgent(g)

\* threads of one process calling get_agent and reset_agent
SpecGlobal == Init /\ [][NextGlobal]_vars

(* ------------------------------ PydanticAIService ---------------------- *)
\* what chat_async is called with to answer an approval request
PydDecisions == {"True", "False", "Approve", "Deny"}

\* the value chat_async resumes the graph with, pydantic_ai_service.py:
\* 528 (bool) and 550 ("Approve" / "Deny")
ResumeValue(message) ==
  CASE message = "True" -> "approved"
    [] message = "False" -> "denied"
    [] message = "Approve" -> "Approve"
    [] OTHER -> "Deny"

\* str(decision).lower()
Lower(v) ==
  CASE v = "Approve" -> "approve"
    [] v = "Deny" -> "deny"
    [] OTHER -> v

\* the test both interrupt sites make of the decision,
\* pydantic_ai_service.py:159 and 469
PydApproved(decision) ==
  Lower(decision) \in {"approve", "approved", "yes", "y", "true"}

\* what self.agent.run(prompt) does in one run of the chat node: the model
\* answers with text, calls execute_code once or twice before it answers,
\* answers with a text that announces code without calling the tool, or the
\* run raises
PydPlans ==
  [kind : {"text", "raise"}, codes : {<< >>}]
    \cup [kind : {"fallback"}, codes : { << c >> : c \in Codes }]
    \cup [kind : {"tools"},
          codes : { << c >> : c \in Codes }
                    \cup { << c, d >> : c \in Codes, d \in Codes }]

\* the execute_code tool called for each code in turn,
\* pydantic_ai_service.py:135-178; resumes are the resume values the
\* checkpoint holds for the node, one for each interrupt(...) of the run
\* in the order they are reached; ran is the code given to the kernel
RECURSIVE PydToolCalls(_, _, _)
PydToolCalls(codes, resumes, ran) ==
  IF codes = << >>
  THEN [interrupted |-> FALSE, request |-> "none", ran |-> ran]
  ELSE IF ~is_available
  THEN PydToolCalls(Tail(codes), resumes, ran)
  ELSE IF ~require_approval
  THEN PydToolCalls(Tail(codes), resumes, Append(ran, Head(codes)))
  ELSE IF resumes = << >>
  THEN [interrupted |-> TRUE, request |-> Head(codes), ran |-> ran]
  ELSE IF PydApproved(Head(resumes))
  THEN PydToolCalls(Tail(codes), Tail(resumes), Append(ran, Head(codes)))
  ELSE PydToolCalls(Tail(codes), Tail(resumes), ran)

\* one run of pydantic_ai_chat_node, pydantic_ai_service.py:416-502; a node
\* that stopped at interrupt(...) is run again from its first line when the
\* graph is resumed, so every run of the node begins with
\* self.agent.run(prompt), 446-448
PydChatNode(plan, resumes) ==
  CASE plan.kind = "raise" ->
         [interrupted |-> FALSE, request |-> "none", ran |-> << >>,
          reply |-> "Error"]
    [] plan.kind = "text" ->
         [interrupted |-> FALSE, request |-> "none", ran |-> << >>,
          reply |-> "text"]
    [] plan.kind = "tools" ->
         LET r == PydToolCalls(plan.codes, resumes, << >>)
         IN [interrupted |-> r.interrupted, request |-> r.request,
             ran |-> r.ran, reply |-> "text"]
    [] OTHER ->
         \* the fallback on the words of the answer, 451-480
         IF ~require_approval
         THEN [interrupted |-> FALSE, request |-> "none", ran |-> << >>,
               reply |-> "text"]
         ELSE IF resumes = << >>
         THEN [interrupted |-> TRUE, request |-> plan.codes[1],
               ran |-> << >>, reply |-> "none"]
         ELSE IF PydApproved(Head(resumes))
         THEN [interrupted |-> FALSE, request |-> "none",
               ran |-> IF is_available THEN plan.codes ELSE << >>,
               reply |-> "executed"]
         ELSE [interrupted |-> FALSE, request |-> "none", ran |-> << >>,
               reply |-> "denied"]

\* the entries of pyd_execs for the code one run of the node gave to the
\* kernel: the call, what it was called with, the request that was pending
\* when it began, and the runs of the model in the call before the code ran
PydEntries(ran, t, cmd, request, n) ==
  [i \in DOMAIN ran |->
     [th |-> t, code |-> ran[i], cmd |-> cmd, request |-> request,
      call |-> n, runs |-> 1]]

PydMsg(role, content) == [role |-> role, content |-> content]

\* the last assistant message of final_state["messages"],
\* pydantic_ai_service.py:533-537, 555-559
RECURSIVE LastAssistant(_)
LastAssistant(msgs) ==
  IF msgs = << >> THEN "none"
  ELSE IF msgs[Len(msgs)].role = "assistant" THEN msgs[Len(msgs)].content
  ELSE LastAssistant(SubSeq(msgs, 1, Len(msgs) - 1))

PydReturn(kind, t, cmd, content, request) ==
  [kind |-> kind, success |-> kind # "error",
   interrupted |-> kind = "interrupted", th |-> t, cmd |-> cmd,
   content |-> content, request |-> request]

\* PydanticAIService.chat(message, thread_id) with a text,
\* pydantic_ai_service.py:572-638: the user message is put after the
\* thread's messages and the graph starts at its entry point "chat"
PydChat(t, plan) ==
  /\ pyd_calls < MaxPydCalls
  /\ pyd_calls' = pyd_calls + 1
  /\ LET c    == pyd_ckpt[t]
         msgs == c.messages \o << PydMsg("user", "hello") >>
         r    == PydChatNode(plan, << >>)
     IN /\ pyd_execs' = pyd_execs \o
                          PydEntries(r.ran, t, "message", "none",
                                     pyd_calls + 1)
        /\ IF r.interrupted
           THEN /\ pyd_ckpt' = [pyd_ckpt EXCEPT ![t] =
                      [exists |-> TRUE, messages |-> msgs, next |-> "chat",
                       resume |-> << >>, request |-> r.request]]
                /\ pyd_result' = PydReturn("interrupted", t, "message",
                                           "Approve code execution?",
                                           r.request)
           ELSE /\ pyd_ckpt' = [pyd_ckpt EXCEPT ![t] =
                      [exists |-> TRUE,
                       messages |-> msgs \o << PydMsg("assistant", r.reply) >>,
                       next |-> "none", resume |-> << >>,
                       request |-> "none"]]
                /\ pyd_result' = PydReturn("final", t, "message", r.reply,
                                           "none")
  /\ UNCHANGED << serviceVars, handlerVars, widgetVars, globalVars >>

\* PydanticAIService.chat(message, thread_id) with True, False, "Approve"
\* or "Deny", pydantic_ai_service.py:524-570: the graph is resumed with
\* Command(resume=...); the result is built from the messages of the state
\* that ainvoke returns, whether or not the run was interrupted again
PydResume(t, message, plan) ==
  /\ pyd_calls < MaxPydCalls
  /\ pyd_calls' = pyd_calls + 1
  /\ LET c       == pyd_ckpt[t]
         resumes == Append(c.resume, ResumeValue(message))
         r       == PydChatNode(plan, resumes)
         default == IF message \in {"True", "Approve"}
                    THEN "Approval processed" ELSE "Execution denied"
     IN IF ~c.exists
        THEN /\ pyd_result' = PydReturn("error", t, message, "error", "none")
             /\ UNCHANGED << pyd_ckpt, pyd_execs >>
        ELSE IF c.next = "none"
        THEN /\ pyd_result' =
                  PydReturn("final", t, message,
                            IF LastAssistant(c.messages) = "none"
                            THEN default ELSE LastAssistant(c.messages),
                            "none")
             /\ UNCHANGED << pyd_ckpt, pyd_execs >>
        ELSE /\ pyd_execs' = pyd_execs \o
                               PydEntries(r.ran, t, message, c.request,
                                          pyd_calls + 1)
             /\ IF r.interrupted
                THEN /\ pyd_ckpt' = [pyd_ckpt EXCEPT ![t] =
                           [c EXCEPT !.resume = resumes,
                                     !.request = r.request]]
                     /\ pyd_result' =
                          PydReturn("final", t, message,
                                    IF LastAssistant(c.messages) = "none"
                                    THEN default
                                    ELSE LastAssistant(c.messages),
                                    c.request)
                ELSE /\ pyd_ckpt' = [pyd_ckpt EXCEPT ![t] =
                           [exists |-> TRUE,
                            messages |-> c.messages \o
                                           << PydMsg("assistant", r.reply) >>,
                            next |-> "none", resume |-> << >>,
                            request |-> "none"]]
                     /\ pyd_result' = PydReturn("final", t, message, r.reply,
                                                c.request)
  /\ UNCHANGED << serviceVars, handlerVars, widgetVars, globalVars >>

NextPydantic ==
  \/ \E t \in Threads, plan \in PydPlans : PydChat(t, plan)
  \/ \E t \in Threads, message \in PydDecisions, plan \in PydPlans :
       PydResume(t, message, plan)

\* one PydanticAIService, its chat calls made one after the other
SpecPydantic == Init /\ [][NextPydantic]_vars

(* ------------------------------ properties ----------------------------- *)
ExecIdx == DOMAIN execLog

\* no chat call is running on thread t
\* the tool messages of a transcript that answer call id
ToolResults(msgs, id) ==
  { j \in DOMAIN msgs : msgs[j].role = "tool" /\ msgs[j].id = id }

Quiet(t) == \A w \in Workers : pc[w] # "idle" => wthread[w] # t

\* C1: with approval required, code requested through execute_code runs
\* against the kernel only if an approved decision arrived for that call
\* while it was pending.
C1_RunsOnlyAfterApproved ==
  require_approval =>
    \A i \in ExecIdx : execLog[i].id \in approvedIds

\* C2: a call that was denied is never run: no execution happens after the
\* denial message for the call was added to the transcript.
C2_DeniedNeverRuns ==
  \A i \in ExecIdx : ~execLog[i].by.afterDenial

\* C3: between calls, the pending_approval flag of a thread's state is true
\* exactly when the thread is suspended awaiting a decision.
C3_PendingFlagIffSuspended ==
  \A t \in Threads :
    Quiet(t) => (ckpt[t].pending_approval <=> ckpt[t].next = "approval")

\* C4: a decision sent to a thread with no pending approval returns a
\* failed result of kind NoPendingApproval.
C4_NoPendingApprovalRejected ==
  (result.cmd \in {"approved", "denied"} /\ result.loaded # "approval")
    => (~result.success /\ result.error = "NoPendingApproval")

DenialCount(msgs) ==
  Cardinality({ j \in DOMAIN msgs : msgs[j].kind = "denial" })

\* C5: a second denial in a row adds no second denial message and is
\* answered with NoPendingApproval.
C5_DenialIdempotent ==
  (/\ result.cmd = "denied"
   /\ result.prev = [cmd |-> "denied", loaded |-> "approval"])
    => /\ result.error = "NoPendingApproval"
       /\ Quiet(result.th) => DenialCount(ckpt[result.th].messages) = 1

\* C6: an approved decision runs exactly the execute_code calls that were
\* suspended (the code shown in the approval request), before the model is
\* invoked again.
C6_ApprovedRunsSuspendedCall ==
  /\ \A i \in ExecIdx :
       LET e == execLog[i]
       IN (e.by.cmd = "approved" /\ e.id \in Ids(e.by.susp)) =>
            /\ e.by.infer = 0
            /\ e.by.batch = e.by.susp
            /\ \A r \in shown : r.id = e.id =>
                 (r.code = e.code /\ r.th = e.by.th)
  /\ \A w \in Workers :
       (wcmd[w] = "approved" /\ winfer[w] >= 1) =>
         IF is_available
         THEN Ids(wsusp[w]) \subseteq { execLog[i].id : i \in ExecIdx }
         \* without a kernel the tool is called and answers that itself
         ELSE \A id \in Ids(wsusp[w]) :
                \E j \in ToolResults(wmsgs[w], id) :
                  wmsgs[w][j].out = KernelNotAvailableOut

C6_Witness ==
  \E i \in ExecIdx :
    /\ execLog[i].by.cmd = "approved"
    /\ execLog[i].id \in Ids(execLog[i].by.susp)
    /\ \E r \in shown : r.id = execLog[i].id

\* the thread a step of caller w belongs to
StepThread(w) == IF pc'[w] = "idle" THEN wthread[w] ELSE wthread'[w]

OwnMessages(msgs, t) == \A j \in DOMAIN msgs : msgs[j].th = t

ThreadsApart ==
  /\ \A t \in Threads : OwnMessages(ckpt[t].messages, t)
  /\ \A w \in Workers : pc[w] # "idle" => OwnMessages(wmsgs[w], wthread[w])

\* C7: a call on one thread never sees or changes the transcript or the
\* pending state of another thread, also when calls run concurrently.
C7_ThreadIsolation ==
  /\ []ThreadsApart
  /\ [][\A t \in Threads :
          ckpt'[t] # ckpt[t] =>
            \E w \in Workers : pc'[w] # pc[w] /\ StepThread(w) = t]_vars

C7_Witness ==
  /\ pc["w1"] # "idle" /\ pc["w2"] # "idle"
  /\ wthread["w1"] # wthread["w2"]
  /\ Len(ckpt["t1"].messages) >= 2
  /\ Len(ckpt["t2"].messages) >= 2

\* C8: two calls for the same thread never run at the same time.
C8_SameThreadSerialized ==
  \A v, w \in Workers :
    (v # w /\ pc[v] # "idle" /\ pc[w] # "idle") => wthread[v] # wthread[w]

\* C9 as stated: under every configuration an execute_code call is
\* suspended for approval before it runs, so it never runs in the call in
\* which the model requested it.
C9_ExecAlwaysSuspends ==
  \A i \in ExecIdx :
    execLog[i].by.infer = 0 /\ execLog[i].by.cmd # "message"

\* C9 as amended: when the service is configured with require_approval=True,
\* an execute_code call is suspended for approval before it runs.
C9_ExecSuspendsWhenRequired ==
  require_approval =>
    \A i \in ExecIdx :
      /\ execLog[i].by.infer = 0
      /\ execLog[i].by.cmd # "message"
      /\ execLog[i].by.loaded \in {"approval", "tools"}

C9_Witness ==
  /\ require_approval
  /\ \E i \in ExecIdx : execLog[i].by.batch # << >> /\ Len(execLog[i].by.batch) = 1
  /\ \E t \in Threads : \E j \in DOMAIN ckpt[t].messages :
       Len(ckpt[t].messages[j].calls) = 2

\* C10: a denial of a pending call is added to the transcript as the result
\* of that call, and the model is invoked again, so the call ends with a
\* final answer or a new approval request.
C10_DenialFedBackToModel ==
  (result.cmd = "denied" /\ result.loaded = "approval"
     /\ Quiet(result.th)) =>
    /\ result.kind \in {"final", "interrupted"}
    /\ result.infer >= 1
    /\ \E j \in DOMAIN ckpt[result.th].messages :
         LET m == ckpt[result.th].messages[j]
         IN m.role = "tool" /\ m.kind = "Denied" /\ m.id \in Ids(result.susp)

\* C11: an approval covers only the calls that were pending when it was
\* given: a resumed call that found the thread suspended runs only those
\* calls, and when the model requests execute_code again afterwards the
\* approval node has no decision left, so the call is suspended again.
C11_ApprovalCoversPendingOnly ==
  /\ \A i \in ExecIdx :
       (execLog[i].by.cmd = "approved" /\ execLog[i].by.loaded = "approval")
         => /\ execLog[i].by.infer = 0
            /\ execLog[i].id \in Ids(execLog[i].by.susp)
  /\ \A w \in Workers :
       (pc[w] = "approval" /\ winfer[w] >= 1) => wresume[w] = "none"
  /\ (result.cmd = "approved" /\ result.kind = "interrupted")
       => result.infer >= 1

C11_Witness ==
  /\ result.cmd = "approved"
  /\ result.kind = "interrupted"
  /\ result.infer >= 1
  /\ \E i \in ExecIdx : execLog[i].id \in Ids(result.susp)

\* the approval node of thread t stopped at interrupt(...): the thread's
\* next node is "approval" and the code awaiting a decision is the code of
\* an approval request that was raised
SuspendedForApproval(t) ==
  LET blocks == code_blocks(ckpt[t].messages)
  IN /\ ckpt[t].next = "approval"
     /\ blocks # << >>
     /\ \A i \in DOMAIN blocks :
          [th |-> t, id |-> blocks[i].id, code |-> blocks[i].code] \in shown

\* C12: every call returns a final (possibly failed) or an interrupted
\* result; it is interrupted, with needs_approval true, exactly when the
\* thread is left suspended at the approval node with code awaiting a
\* decision, and a successful result that is not interrupted leaves the
\* thread's turn finished.  A call that the step limit cuts off before the
\* approval node has run returns a failed result: no request was raised,
\* and the thread is not suspended.
C12_InterruptedIffSuspended ==
  (~Busy /\ result.kind # "none") =>
    /\ result.kind \in {"final", "error", "interrupted"}
    /\ needs_approval(result) <=> result.kind = "interrupted"
    /\ needs_approval(result) <=> SuspendedForApproval(result.th)
    /\ (/\ ckpt[result.th].next = "approval"
        /\ ~SuspendedForApproval(result.th))
         => result.error = "GraphRecursionError"
    /\ (result.success /\ ~needs_approval(result))
         => ckpt[result.th].next = "none"

C12_Witness ==
  /\ ~Busy
  /\ result.kind = "interrupted"
  /\ result.cmd = "message"
  /\ ckpt[result.th].next = "approval"

\* the executions of the calls that were suspended when the call that
\* returned the last result began, that failed
FailedOfResult ==
  { i \in ExecIdx : /\ execLog[i].id \in Ids(result.susp)
                    /\ execLog[i].by.cmd = "approved"
                    /\ ~execLog[i].res.success }

\* C13: when approved code fails in the host, the turn goes on: the call's
\* tool message carries the failure with the type name of the exception the
\* host reported, the model is invoked next, and the resumed call returns
\* what the model's follow-up leads to, not a failure of the tool.
C13_ToolErrorFedBack ==
  /\ \A i \in ExecIdx :
       (execLog[i].by.cmd = "approved" /\ ~execLog[i].res.success) =>
         LET e    == execLog[i]
             msgs == ckpt[e.by.th].messages
         IN /\ ToolResults(msgs, e.id) # {}
            /\ \A j \in ToolResults(msgs, e.id) :
                 /\ ~msgs[j].out.ok
                 /\ msgs[j].out.error =
                      run_cell(e.before, e.code, i).error_in_exec
  /\ \A w \in Workers :
       (pc[w] # "idle" /\ wmsgs[w] # << >> /\ Last(wmsgs[w]).role = "tool")
         => pc[w] = "agent"
  /\ (~Busy /\ result.cmd = "approved" /\ FailedOfResult # {}) =>
       \/ result.kind = "final" /\ result.success /\ result.infer >= 1
       \/ result.kind = "interrupted" /\ result.infer >= 1
       \/ result.error = "model error"
       \* the turn went on until the step limit
       \/ result.error = "GraphRecursionError" /\ result.infer >= 1

C13_Witness ==
  /\ ~Busy
  /\ result.cmd = "approved"
  /\ result.kind = "final"
  /\ result.infer = 1
  /\ \E i \in FailedOfResult : execLog[i].res.error.type = "ZeroDivisionError"

\* C14: when the model answers a new message with a reply that has no tool
\* calls, the call returns at once a successful final result whose text is
\* the text of the reply; nothing is executed and no approval is requested.
C14_TextReplyEndsTurn ==
  [][\A w \in Workers : \A c \in ReplyContents :
       (/\ pc[w] = "agent" /\ wcmd[w] = "message" /\ winfer[w] = 0
        /\ pc'[w] # "agent"
        /\ ckpt'[wthread[w]].messages = Append(wmsgs[w], AIText(wthread[w], c)))
       => /\ pc'[w] = "idle"
          /\ result'.kind = "final"
          /\ result'.success
          /\ result'.content = ReplyText(c)
          /\ execLog' = execLog
          /\ shown' = shown]_vars

\* the schedule in which n calls run one after the other, in call order
Sequential(n) ==
  [j \in 1..(2 * n) |->
     IF j % 2 = 1 THEN Started((j + 1) \div 2) ELSE Ended(j \div 2)]

\* C15: several safe tool calls of one assistant message run one at a time,
\* in the order of the message, and their results are appended in that order
\* before the model is invoked again.
C15_SafeCallsOneAtATime ==
  \A w \in Workers :
    LET n  == Len(wevents[w]) \div 2
        m  == Len(wmsgs[w])
    IN (n >= 2 /\ ~HasExec(wmsgs[w][m - n].calls)) =>
         /\ pc[w] = "agent"
         /\ \A k \in 1..n :
              /\ wmsgs[w][m - n + k].role = "tool"
              /\ wmsgs[w][m - n + k].id = wmsgs[w][m - n].calls[k].id
         /\ wevents[w] = Sequential(n)

\* the tool calls of the assistant message a suspended thread waits on
PendingCalls(t) == Last(ckpt[t].messages).calls

C17_ChangedNamesExact ==
  \A i \in ExecIdx :
    execLog[i].res.success =>
      execLog[i].res.variables_changed =
        (Keys(execLog[i].res.ns) \ Keys(execLog[i].before))
          \cup { v \in Keys(execLog[i].before) \cap Keys(execLog[i].res.ns) :
                   execLog[i].res.ns[v] # execLog[i].before[v] }

\* the changed names a direct call of the primitive reports for the code
\* and starting namespace of execution i
DirectChanged(i) ==
  execute_code(execLog[i].before, Console, execLog[i].code, i).variables_changed

\* the executions of approved calls
ApprovedRuns ==
  { i \in ExecIdx : /\ execLog[i].by.cmd = "approved"
                    /\ execLog[i].id \in Ids(execLog[i].by.susp) }

HostRaised(i) ==
  LET body == run_cell(execLog[i].before, execLog[i].code, i)
  IN IF ~execLog[i].res.ran THEN "none"
     ELSE IF body.raised # "none" THEN body.raised ELSE body.error_in_exec

UsableTexts == { ResponseContent(AIText(t, c)) : t \in Threads, c \in ReplyContents }

\* C23: chat never raises for a failure of the model binding, a failure of
\* a tool, an unknown thread id or a denied approval: a call that is under
\* way always has a step that leads on, and every result returned is either
\* a success (a text, or a request for approval) with no error, or a failure
\* that carries an error.
C23_AlwaysAResult ==
  /\ \A w \in Workers :
       pc[w] # "idle" =>
         ENABLED (\/ AgentReply(w) \/ AgentRaise(w) \/ ApprovalInterrupt(w)
                  \/ ApprovalResume(w) \/ ToolsRun(w) \/ ToolsRaise(w)
                  \/ OutOfSteps(w))
  /\ result # NoResult =>
       \/ /\ result.success
          /\ result.error = "none"
          /\ \/ needs_approval(result)
             \/ ~result.interrupted /\ result.content \in UsableTexts
       \/ /\ ~result.success
          /\ ~result.interrupted
          /\ result.error # "none"

\* a tool call has failed in one thread and a denial was sent for a thread
\* id that was never used: both calls returned
C23_Witness ==
  /\ \E i \in ExecIdx : ~execLog[i].res.success
  /\ result.cmd = "denied"
  /\ ~ckpt[result.th].exists
  /\ ~result.success
  /\ result.error # "none"

\* C24: an error of the orchestration itself (a decision sent with no
\* approval pending, a failure of the model inference) is returned as a
\* failed result, and the transcript holds no message for it: every message
\* of a transcript is a user, assistant or tool message.
C24_OrchestratorErrorsNotInTranscript ==
  /\ (result.cmd \in {"approved", "denied"} /\ result.loaded # "approval"
        /\ result.infer = 0 /\ result.kind # "none")
       => ~result.success
  /\ result.error = "model error" => ~result.success
  /\ \A t \in Threads : \A j \in DOMAIN ckpt[t].messages :
       /\ ckpt[t].messages[j].role \in {"human", "ai", "tool"}
       /\ ckpt[t].messages[j].content # "error"

IsPrefix(a, b) ==
  /\ Len(a) <= Len(b)
  /\ \A j \in DOMAIN a : b[j] = a[j]

\* C25: the transcript of a thread only grows at its end: over every step
\* the stored messages are a prefix of the messages stored after it.
C25_TranscriptAppendOnly ==
  [][\A t \in Threads : IsPrefix(ckpt[t].messages, ckpt'[t].messages)]_vars

\* a thread's transcript after a second call: the first turn's messages
\* come first, in the order user, assistant with calls, tool, assistant
C25_Witness ==
  \E t \in Threads :
    LET m == ckpt[t].messages
    IN /\ Len(m) >= 6
       /\ m[1].role = "human" /\ m[2].role = "ai" /\ m[3].role = "tool"
       /\ m[4].role = "ai" /\ m[4].calls = NoCalls
       /\ m[5].role = "human"
       /\ Quiet(t)

C30_RunAtMostOnce ==
  \A i, j \in ExecIdx :
    (i # j /\ execLog[i].by # DirectTag /\ execLog[j].by # DirectTag)
      => execLog[i].id # execLog[j].id

\* a call was run after its approval, and a further approval sent for the
\* same thread has returned
C30_Witness ==
  /\ result.cmd = "approved"
  /\ result.loaded # "approval"
  /\ result.prev.cmd = "approved"
  /\ \E i \in ExecIdx :
       /\ execLog[i].by.th = result.th
       /\ execLog[i].by.cmd = "approved"
       /\ execLog[i].id \in approvedIds

\* C27: handle_message gives one response for every message, whatever the
\* message: its request_id is the id of the request (a message without id
\* is answered under "unknown", a message that is no dictionary under
\* "invalid"), and it is either a success with data and no error or a
\* failure with an error and no data.
C27_OneWellFormedResponse ==
  /\ Len(responses) = Len(requests)
  /\ Len(requests) < MaxRequests =>
       \A message \in Messages : ENABLED HandleMessage(message)
  /\ \A i \in DOMAIN responses :
       LET r == responses[i]
           m == requests[i]
       IN /\ r.request_id =
               (IF ~m.dict THEN "invalid"
                ELSE IF m.id = "absent" THEN "unknown" ELSE m.id)
          /\ \/ r.success /\ r.data # "absent" /\ r.error = "absent"
             \/ ~r.success /\ r.error # "absent" /\ r.data = "absent"

\* a handler has failed on a request with an id, and a message that is not
\* a dictionary was answered
C27_Witness ==
  /\ \E i \in DOMAIN responses :
       /\ requests[i].id = "r1"
       /\ responses[i].error = "UNKNOWN_ERROR"
       /\ responses[i].request_id = "r1"
  /\ \E j \in DOMAIN responses :
       requests[j] = NotADict /\ ~responses[j].success

\* the entries of chat_history are in the order of the operations that
\* added them, and each lies where its operation put it
InHandlingOrder ==
  /\ \A j \in DOMAIN chat_history :
       /\ chat_history[j].op \in DOMAIN handled
       /\ handled[chat_history[j].op].before < j
       /\ j <= handled[chat_history[j].op].after
  /\ handled # << >> => Len(chat_history) = handled[Len(handled)].after
  /\ \A i \in DOMAIN handled :
       handled[i].before = (IF i = 1 THEN 0 ELSE handled[i - 1].after)

Plain ==
  { i \in DOMAIN returned :
      /\ returned[i].fn = "get_agent"
      /\ ~returned[i].reset
      /\ returned[i].undisturbed }

\* C29: between resets there is one global agent: calls of get_agent
\* without reset return the same instance whatever ai_config they pass,
\* calls that run at the same time create one instance only, and after a
\* reset the instance returned is one created after it.
C29_SingleGlobalAgent ==
  /\ Len(instances) <= 1 + resetsStarted
  /\ \A i \in Plain :
       /\ returned[i].value \in DOMAIN instances
       /\ ~returned[i].closedValue
       /\ instances[returned[i].value].epoch = returned[i].epoch
  /\ \A i, j \in Plain :
       returned[i].epoch = returned[j].epoch
         => returned[i].value = returned[j].value

\* after an instance was made and reset, two threads have called get_agent
\* at the same time with different ai_config and were given the same new
\* instance
C29_Witness ==
  /\ Len(instances) = 2
  /\ closed = {1}
  /\ \E i, j \in Plain :
       /\ returned[i].th # returned[j].th
       /\ returned[j].overlap
       /\ returned[i].ai_config # returned[j].ai_config
       /\ returned[i].value = 2
       /\ returned[j].value = 2

\* C31: in PydanticAIService a call that resumes a pending approval request
\* with an approval gives the kernel exactly the code the request showed,
\* and the model is not run again before that code runs.
C31_ResumeRunsShownCode ==
  \A i \in DOMAIN pyd_execs :
    LET e == pyd_execs[i]
    IN (PydApproved(ResumeValue(e.cmd)) /\ e.cmd # "message") =>
         /\ e.code = e.request
         /\ e.runs = 0

\* the execute_code calls of the model's latest request in the messages of
\* caller w
LatestExecCalls(w) ==
  LET i == LatestAI(wmsgs[w], Len(wmsgs[w]))
  IN IF i = 0 THEN << >> ELSE ExecCallsOf(wmsgs[w][i].calls)

\* C32: a service created with require_approval=False never interrupts a
\* turn: no call is at the approval node, no thread is left there, no
\* result is interrupted or needs approval, a reply that asks for tools
\* leads straight to the tools node, and once the tools node has run, the
\* execute_code calls of the request have been given to the kernel without
\* any call having been suspended (with no kernel, the tool has answered
\* that itself).
C32_NoApprovalNoInterrupt ==
  ~require_approval =>
    /\ result.kind # "interrupted"
    /\ ~needs_approval(result)
    /\ shown = {}
    /\ \A t \in Threads :
         ckpt[t].next # "approval" /\ ~ckpt[t].pending_approval
    /\ \A w \in Workers :
         /\ pc[w] # "approval"
         /\ (pc[w] # "idle" /\ wmsgs[w] # << >>
               /\ IsAIWithCalls(Last(wmsgs[w]))) => pc[w] = "tools"
         /\ (pc[w] = "agent" /\ wsteps[w] > 0) =>
              LET cs == LatestExecCalls(w)
              IN \A j \in DOMAIN cs :
                   IF is_available
                   THEN \E k \in ExecIdx :
                          /\ execLog[k].id = cs[j].id
                          /\ execLog[k].code = cs[j].code
                          /\ execLog[k].by.th = wthread[w]
                          /\ execLog[k].by.infer = winfer[w]
                   ELSE \E m \in ToolResults(wmsgs[w], cs[j].id) :
                          wmsgs[w][m].out = KernelNotAvailableOut
    /\ \A k \in ExecIdx : execLog[k].by.susp = << >>

C32_Witness ==
  /\ ~require_approval
  /\ is_available
  /\ result.kind = "final"
  /\ result.infer >= 2
  /\ \E k \in ExecIdx :
       /\ execLog[k].by.th = result.th
       /\ execLog[k].by.cmd = "message"
       /\ execLog[k].by.infer = 1

\* every tool call of every AIMessage of msgs has a tool message answering it
CallsAnswered(msgs) ==
  \A j \in DOMAIN msgs :
    IsAIWithCalls(msgs[j]) =>
      \A i \in DOMAIN msgs[j].calls :
        ToolResults(msgs, msgs[j].calls[i].id) # {}

\* C33: whenever the model is about to be invoked, every tool call of every
\* assistant message of the transcript has a matching tool result in the
\* transcript.
C33_CallsAnsweredBeforeModel ==
  \A w \in Workers :
    (pc[w] = "agent" /\ ~RecursionLimitReached(wsteps[w]))
      => CallsAnswered(wmsgs[w])

\* the Approve and Deny buttons are on show
ApprovalButtonsShown ==
  \E i \in DOMAIN action_buttons : action_buttons[i] \in {"Approve", "Deny"}

\* C34: the widget shows the Approve/Deny buttons only while its thread has
\* an unresolved approval request.
C34_ButtonsOnlyWhilePending ==
  ApprovalButtonsShown => approval_pending

C36_HistoryKeepsLast50 ==
  /\ Len(code_history) <= HistoryLimit
  /\ Len(code_history) =
       (IF recorded <= HistoryLimit THEN recorded ELSE HistoryLimit)
  /\ \A i \in DOMAIN code_history :
       code_history[i].n = recorded - Len(code_history) + i

\* more executions were recorded than the history keeps
C36_Witness ==
  /\ recorded > HistoryLimit
  /\ Len(code_history) = HistoryLimit
  /\ code_history[1].n = recorded - HistoryLimit + 1

\* C37: get_agent always returns a widget instance: never nothing, and
\* never an instance that was closed before the call returned, whatever
\* other calls of get_agent and reset_agent run at the same time.
C37_AlwaysALiveInstance ==
  \A i \in DOMAIN returned :
    returned[i].fn = "get_agent" =>
      /\ returned[i].value # 0
      /\ ~returned[i].closedValue

====
